---- MODULE Spec2Model ----
(***************************************************************************)
(* Model of the notebook Identifying-most-valuable-customers.ipynb.        *)
(*                                                                         *)
(* The notebook is a linear pipeline of code cells over one transaction    *)
(* table `data`.  Each code cell is one action; pc is the position of the  *)
(* run.  Floating point values are modelled as fractions num/den with      *)
(* den >= 0, where 0/0 is NaN and n/0 (n > 0) is +inf, which is what       *)
(* pandas / numpy true division yields for a zero divisor.                 *)
(***************************************************************************)
EXTENDS Integers, Sequences, FiniteSets

VARIABLES
    data,               \* the transaction table read by pd.read_csv
    pc,                 \* the next cell to run
    group_keys,         \* keys of group_by_customer, in its (sorted) order
    last_transaction,   \* customer_id -> max trans_date
    churned,            \* best_churn["churned"]
    nr_of_transactions, \* best_churn["nr_of_transactions"]
    amount_spent,       \* best_churn["amount_spent"]
    scaled_tran,        \* best_churn["scaled_tran"]
    scaled_amount,      \* best_churn["scaled_amount"]
    score,              \* best_churn["score"]
    coupon,             \* coupon
    nr_of_customers,    \* nr_of_customers
    top_50_churned      \* index of top_50_churned, in order

vars == <<data, pc, group_keys, last_transaction, churned, nr_of_transactions,
          amount_spent, scaled_tran, scaled_amount, score, coupon,
          nr_of_customers, top_50_churned>>

(***************************************************************************)
(* Bounds of the input tables.                                             *)
(***************************************************************************)
NumIds == 2
MaxRows == 3
PadMax == 49

(***************************************************************************)
(* Program constants.                                                      *)
(***************************************************************************)
cutoff_day == 20191016
Budget == 1000
HeadCount == 50

\* Dates are written YYYYMMDD, which keeps the calendar order.
Ids == 1..NumIds
Dates == {20191014, 20191016}
Amounts == {65, 2000}

Row == [customer_id : Ids, trans_date : Dates, tran_amount : Amounts]

SmallTables(n) == UNION {[1..k -> Row] : k \in 0..n}

\* A block of k churned customers NumIds+1 .. NumIds+k, the j-th having
\* 1 + (j % 3) transactions of 65 each, all before the cutoff.
PadRowsOf(j) ==
    [r \in 1..(1 + (j % 3)) |->
        [customer_id |-> NumIds + j, trans_date |-> 20190525 + r,
         tran_amount |-> 65]]

RECURSIVE Padding(_)
Padding(k) ==
    IF k = 0 THEN <<>> ELSE Padding(k - 1) \o PadRowsOf(k)

Tables ==
    SmallTables(MaxRows)
        \cup {Padding(PadMax) \o t : t \in SmallTables(MaxRows - 1)}

(***************************************************************************)
(* Floating point values as fractions.                                     *)
(***************************************************************************)
Frac(n, d) == [num |-> n, den |-> d]
NaN == Frac(0, 0)
IsNaN(x) == x.num = 0 /\ x.den = 0

\* a / b on integers, as pandas true division
TrueDiv(a, b) == Frac(a, b)

\* Comparisons; every comparison with NaN is false.  Two finite fractions
\* over the same denominator are compared by their numerators.
SameDen(x, y) == x.den = y.den /\ x.den > 0
FLeq(x, y) ==
    /\ ~IsNaN(x) /\ ~IsNaN(y)
    /\ IF SameDen(x, y) THEN x.num <= y.num ELSE x.num * y.den <= y.num * x.den
FEq(x, y) ==
    /\ ~IsNaN(x) /\ ~IsNaN(y)
    /\ IF SameDen(x, y) THEN x.num = y.num ELSE x.num * y.den = y.num * x.den
FLess(x, y) ==
    /\ ~IsNaN(x) /\ ~IsNaN(y)
    /\ IF SameDen(x, y) THEN x.num < y.num ELSE x.num * y.den < y.num * x.den

(***************************************************************************)
(* pandas helpers.                                                         *)
(***************************************************************************)
RECURSIVE SortedSeq(_)
SortedSeq(S) ==
    IF S = {} THEN <<>>
    ELSE LET m == CHOOSE x \in S : \A y \in S : x <= y
         IN  <<m>> \o SortedSeq(S \ {m})

\* Reductions of a column, splitting the index range in halves.
RECURSIVE SumRange(_, _, _)
SumRange(s, lo, hi) ==
    IF lo > hi THEN 0
    ELSE IF lo = hi THEN s[lo]
    ELSE SumRange(s, lo, (lo + hi) \div 2) + SumRange(s, (lo + hi) \div 2 + 1, hi)

SeqSum(s) == SumRange(s, 1, Len(s))

Max2(a, b) == IF a > b THEN a ELSE b

RECURSIVE MaxRange(_, _, _)
MaxRange(s, lo, hi) ==
    IF lo = hi THEN s[lo]
    ELSE Max2(MaxRange(s, lo, (lo + hi) \div 2),
              MaxRange(s, (lo + hi) \div 2 + 1, hi))

\* max() of a group; a group is never empty
SeqMax(s) == MaxRange(s, 1, Len(s))

Column(t, name) == [i \in DOMAIN t |-> t[i][name]]

\* data.groupby("customer_id"): keys sorted, each with its rows in table order
GroupKeys(t) == SortedSeq({t[i].customer_id : i \in DOMAIN t})
\* a grouping that lets every row into every group
GroupRowsAll(t, c) == t

GroupRows(t, c) == SelectSeq(t, LAMBDA r : r.customer_id = c)
KeySet(t) == {t[i].customer_id : i \in DOMAIN t}

GroupMax(t, name) == [c \in KeySet(t) |-> SeqMax(Column(GroupRows(t, c), name))]
GroupSize(t) == [c \in KeySet(t) |-> Len(GroupRows(t, c))]
GroupSum(t, name) == [c \in KeySet(t) |-> SeqSum(Column(GroupRows(t, c), name))]

SeriesMin(s) == CHOOSE v \in {s[c] : c \in DOMAIN s} : \A c \in DOMAIN s : v <= s[c]
SeriesMax(s) == CHOOSE v \in {s[c] : c \in DOMAIN s} : \A c \in DOMAIN s : v >= s[c]

\* Series.mean() of an integer column: NaN on an empty column
Mean(s) == IF s = <<>> THEN NaN ELSE Frac(SeqSum(s), Len(s))

(***************************************************************************)
(* The cells' computations.                                                *)
(***************************************************************************)
\* the comparison made inclusive
ChurnLabelInclusive(date) == IF date <= cutoff_day THEN 1 ELSE 0

\* lambda date: 1 if date < cutoff_day else 0
ChurnLabel(date) == IF date < cutoff_day THEN 1 ELSE 0

\* scaling by the maximum instead of the range
MinMaxScaleByMax(s) ==
    [c \in DOMAIN s |-> TrueDiv(s[c] - SeriesMin(s), SeriesMax(s))]

\* (s - s.min()) / (s.max() - s.min())
MinMaxScale(s) ==
    [c \in DOMAIN s |-> TrueDiv(s[c] - SeriesMin(s), SeriesMax(s) - SeriesMin(s))]

\* 100*(.5*a + .5*b)
WeightedScore(a, b) ==
    IF IsNaN(a) \/ IsNaN(b) THEN NaN
    ELSE Frac(50 * (a.num * b.den + b.num * a.den), a.den * b.den)

\* mean * 0.3
CouponOf(m) == IF IsNaN(m) THEN NaN ELSE Frac(3 * m.num, 10 * m.den)

\* 1000 / coupon
BudgetOver(c) == IF IsNaN(c) THEN NaN ELSE Frac(Budget * c.den, c.num)

\* df.head(n)
HeadOf(s, n) == SubSeq(s, 1, IF Len(s) < n THEN Len(s) ELSE n)

\* head(50) of the whole table, the churned filter left out
SelectorUnfiltered(keys, ch) == HeadOf(keys, HeadCount)

\* the churned customers sorted by descending score (ties by ascending id)
\* before head(50)
SelectorByScore(keys, ch) ==
    LET S == {c \in {keys[i] : i \in DOMAIN keys} : ch[c] = 1}
        Before(d, c) ==
            \/ FLess(score[c], score[d])
            \/ ~FLess(score[d], score[c]) /\ d < c
        Rank(c) == 1 + Cardinality({d \in S : d # c /\ Before(d, c)})
        sorted == [k \in 1..Cardinality(S) |-> CHOOSE c \in S : Rank(c) = k]
    IN  HeadOf(sorted, HeadCount)

\* best_churn.loc[best_churn["churned"] == 1].head(50), as its index
Selector(keys, ch) == HeadOf(SelectSeq(keys, LAMBDA c : ch[c] = 1), HeadCount)

(***************************************************************************)
(* The run.                                                                *)
(***************************************************************************)
Init ==
    /\ data \in Tables
    /\ pc = "group"
    /\ group_keys = <<>>
    /\ last_transaction = <<>>
    /\ churned = <<>>
    /\ nr_of_transactions = <<>>
    /\ amount_spent = <<>>
    /\ scaled_tran = <<>>
    /\ scaled_amount = <<>>
    /\ score = <<>>
    /\ coupon = NaN
    /\ nr_of_customers = NaN
    /\ top_50_churned = <<>>

\* group_by_customer = data.groupby(...); last_transaction = ...max()
GroupByCustomer ==
    /\ pc = "group"
    /\ group_keys' = GroupKeys(data)
    /\ last_transaction' = GroupMax(data, "trans_date")
    /\ pc' = "churn"
    /\ UNCHANGED <<data, churned, nr_of_transactions, amount_spent, scaled_tran,
                   scaled_amount, score, coupon, nr_of_customers, top_50_churned>>

\* best_churn["churned"] = best_churn["trans_date"].apply(...)
LabelChurned ==
    /\ pc = "churn"
    /\ churned' = [c \in DOMAIN last_transaction |-> ChurnLabel(last_transaction[c])]
    /\ pc' = "features"
    /\ UNCHANGED <<data, group_keys, last_transaction, nr_of_transactions,
                   amount_spent, scaled_tran, scaled_amount, score, coupon,
                   nr_of_customers, top_50_churned>>

\* nr_of_transactions = size(); amount_spent = sum(); drop trans_date
Features ==
    /\ pc = "features"
    /\ nr_of_transactions' = GroupSize(data)
    /\ amount_spent' = GroupSum(data, "tran_amount")
    /\ pc' = "scale"
    /\ UNCHANGED <<data, group_keys, last_transaction, churned, scaled_tran,
                   scaled_amount, score, coupon, nr_of_customers, top_50_churned>>

\* scaled_tran, scaled_amount, score
FeatureScaling ==
    /\ pc = "scale"
    /\ scaled_tran' = MinMaxScale(nr_of_transactions)
    /\ scaled_amount' = MinMaxScale(amount_spent)
    /\ score' = [c \in DOMAIN nr_of_transactions |->
                    WeightedScore(scaled_tran'[c], scaled_amount'[c])]
    /\ pc' = "threshold"
    /\ UNCHANGED <<data, group_keys, last_transaction, churned,
                   nr_of_transactions, amount_spent, coupon, nr_of_customers,
                   top_50_churned>>

\* coupon = mean*0.3; nr_of_customers = 1000/coupon
Threshold ==
    /\ pc = "threshold"
    /\ coupon' = CouponOf(Mean(Column(data, "tran_amount")))
    /\ nr_of_customers' = BudgetOver(coupon')
    /\ pc' = "select"
    /\ UNCHANGED <<data, group_keys, last_transaction, churned,
                   nr_of_transactions, amount_spent, scaled_tran, scaled_amount,
                   score, top_50_churned>>

\* top_50_churned = best_churn.loc[churned == 1].head(50)
PickTop ==
    /\ pc = "select"
    /\ top_50_churned' = Selector(group_keys, churned)
    /\ pc' = "done"
    /\ UNCHANGED <<data, group_keys, last_transaction, churned,
                   nr_of_transactions, amount_spent, scaled_tran, scaled_amount,
                   score, coupon, nr_of_customers>>

Next ==
    \/ GroupByCustomer
    \/ LabelChurned
    \/ Features
    \/ FeatureScaling
    \/ Threshold
    \/ PickTop

Spec == Init /\ [][Next]_vars

(***************************************************************************)
(* The input table read directly, for stating the properties.              *)
(***************************************************************************)
Customers == {data[i].customer_id : i \in DOMAIN data}
RowsOf(c) == {i \in DOMAIN data : data[i].customer_id = c}

RECURSIVE AmountOver(_)
AmountOver(S) ==
    IF S = {} THEN 0
    ELSE LET i == CHOOSE j \in S : TRUE
         IN  data[i].tran_amount + AmountOver(S \ {i})

LastDateOf(c) ==
    LET dates == {data[i].trans_date : i \in RowsOf(c)}
    IN  CHOOSE d \in dates : \A e \in dates : e <= d

ChurnedCustomers == {c \in Customers : LastDateOf(c) < cutoff_day}

Aggregated == pc \notin {"group"}
Labelled == pc \notin {"group", "churn"}
Summarised == pc \in {"scale", "threshold", "select", "done"}
Scored == pc \in {"threshold", "select", "done"}
Done == pc = "done"

Zero == Frac(0, 1)
One == Frac(1, 1)
Hundred == Frac(100, 1)

\* both features have a non-zero range over the population
NonDegenerate ==
    /\ \E c, d \in DOMAIN nr_of_transactions :
          nr_of_transactions[c] # nr_of_transactions[d]
    /\ \E c, d \in DOMAIN amount_spent : amount_spent[c] # amount_spent[d]

\* some feature has a zero range over a non-empty population
Degenerate == data # <<>> /\ Summarised /\ ~NonDegenerate

MinCount(c) == \A d \in DOMAIN nr_of_transactions :
                   nr_of_transactions[c] <= nr_of_transactions[d]
MaxCount(c) == \A d \in DOMAIN nr_of_transactions :
                   nr_of_transactions[c] >= nr_of_transactions[d]
MinAmount(c) == \A d \in DOMAIN amount_spent : amount_spent[c] <= amount_spent[d]
MaxAmount(c) == \A d \in DOMAIN amount_spent : amount_spent[c] >= amount_spent[d]

\* 0.3 * mean(amount), rounded to the nearest unit
CouponValue ==
    LET total == SeqSum(Column(data, "tran_amount"))
        n == Len(data)
    IN  (6 * total + 10 * n) \div (20 * n)

BudgetCount == Budget \div CouponValue

(***************************************************************************)
(* C1.  For every non-empty table the Selector returns at most             *)
(* floor(budget / coupon_value) ids, coupon_value being 0.3 * mean amount  *)
(* rounded to the nearest unit.                                            *)
(***************************************************************************)
C1_SelectorCountBound ==
    (Done /\ data # <<>>) => Len(top_50_churned) <= BudgetCount

C3_TopNByScore ==
    Done =>
        LET out == {top_50_churned[k] : k \in DOMAIN top_50_churned}
        IN  /\ \A c \in ChurnedCustomers \ out :
                  \A d \in out : ~FLess(score[d], score[c])
            /\ \A k \in DOMAIN top_50_churned : \A m \in DOMAIN top_50_churned :
                  k < m => ~FLess(score[top_50_churned[k]], score[top_50_churned[m]])

(***************************************************************************)
(* C4.  For every non-empty table the Aggregator yields exactly one        *)
(* summary per distinct customer_id; transaction_count is the number of    *)
(* that customer's rows (>= 1), total_amount the sum of their amounts and  *)
(* last_transaction_date the maximum of their dates.                       *)
(***************************************************************************)
C4_AggregationCorrect ==
    (Summarised /\ data # <<>>) =>
        /\ {group_keys[k] : k \in DOMAIN group_keys} = Customers
        /\ Len(group_keys) = Cardinality(Customers)
        /\ DOMAIN last_transaction = Customers
        /\ DOMAIN nr_of_transactions = Customers
        /\ DOMAIN amount_spent = Customers
        /\ \A c \in Customers :
              LET rows == RowsOf(c)
              IN  /\ nr_of_transactions[c] = Cardinality(rows)
                  /\ nr_of_transactions[c] >= 1
                  /\ amount_spent[c] = AmountOver(rows)
                  /\ \E i \in rows : last_transaction[c] = data[i].trans_date
                  /\ \A i \in rows : last_transaction[c] >= data[i].trans_date

C4_Witness ==
    /\ Summarised
    /\ \E c, d \in Customers :
          /\ c # d
          /\ \E i, j \in RowsOf(c) :
                /\ i < j
                /\ data[i].trans_date > data[j].trans_date
                /\ data[i].tran_amount # data[j].tran_amount
          /\ amount_spent[c] # amount_spent[d]

C6_DegenerateIsError ==
    Degenerate =>
        /\ ~Scored
        /\ \A c \in DOMAIN score : ~IsNaN(score[c])

(***************************************************************************)
(* C7.  On an empty transaction table the run fails at aggregation: it     *)
(* never gets past the grouping cell, so no coupon value, customer count   *)
(* or selection is produced.                                               *)
(***************************************************************************)
C7_EmptyInputIsError ==
    data = <<>> => ~Aggregated

(***************************************************************************)
(* C8.  When both features have a non-zero range, every scaled value lies  *)
(* in [0,1], a customer with the minimum of a feature has scaled value 0   *)
(* and a customer with the maximum has scaled value 1.                     *)
(***************************************************************************)
C8_ScalingRange ==
    (Scored /\ NonDegenerate) =>
        /\ DOMAIN scaled_tran = DOMAIN nr_of_transactions
        /\ DOMAIN scaled_amount = DOMAIN amount_spent
        /\ \A c \in DOMAIN nr_of_transactions :
              /\ FLeq(Zero, scaled_tran[c]) /\ FLeq(scaled_tran[c], One)
              /\ FLeq(Zero, scaled_amount[c]) /\ FLeq(scaled_amount[c], One)
              /\ MinCount(c) => FEq(scaled_tran[c], Zero)
              /\ MaxCount(c) => FEq(scaled_tran[c], One)
              /\ MinAmount(c) => FEq(scaled_amount[c], Zero)
              /\ MaxAmount(c) => FEq(scaled_amount[c], One)

C8_Witness ==
    /\ Scored
    /\ NonDegenerate
    /\ \E c \in DOMAIN scaled_tran :
          FLess(Zero, scaled_tran[c]) /\ FLess(scaled_tran[c], One)
    /\ \E c \in DOMAIN scaled_amount :
          FLess(Zero, scaled_amount[c]) /\ FLess(scaled_amount[c], One)

\* what the score of customer c must satisfy within its population
ScoreRangeOf(c) ==
    /\ FLeq(Zero, score[c]) /\ FLeq(score[c], Hundred)
    /\ (MinCount(c) /\ MinAmount(c)) => FEq(score[c], Zero)
    /\ (MaxCount(c) /\ MaxAmount(c)) => FEq(score[c], Hundred)
    /\ \A d \in DOMAIN score :
          (/\ nr_of_transactions[c] <= nr_of_transactions[d]
           /\ amount_spent[c] <= amount_spent[d]) => FLeq(score[c], score[d])

(***************************************************************************)
(* C9.  Every customer's score lies in [0,100]; a customer with both       *)
(* minima scores 0, one with both maxima scores 100, and the score is      *)
(* non-decreasing in transaction_count and in total_amount.                *)
(***************************************************************************)
C9_ScoreRange ==
    (Scored /\ data # <<>>) => \A c \in DOMAIN score : ScoreRangeOf(c)

\* The same statement over the populations where both features have a
\* non-zero range.
ScoreRangeNonDegenerate ==
    (Scored /\ NonDegenerate) => \A c \in DOMAIN score : ScoreRangeOf(c)

====
